---- MODULE Spec2Model ----
(***************************************************************************)
(* Model of scripts/publish_docfx_to_confluence.py: the reconciliation of  *)
(* a generated DocFX site against the pages of a Confluence server (main,  *)
(* get_confluence_mappings, ConfluenceClient.create_page / update_page)    *)
(* and the rewriting of cross-reference links (transform_links).           *)
(*                                                                         *)
(* Strings that the code takes apart (hrefs, site paths) are sequences of  *)
(* tokens: "/", "#" and "?" are the characters of that name, every other   *)
(* token ("a.html", "sub", "frag") stands for a run of characters that     *)
(* holds none of them.  The empty string is << >>.                         *)
(***************************************************************************)
EXTENDS Integers, Sequences, FiniteSets, TLC

VARIABLES
    \* ---- the environment of main()
    docfx_mappings,              \* the references of the xref map (line 25)
    confluence_space,            \* the --confluence-space argument
    store,                       \* the pages of the Confluence server, by id
    \* ---- the locals of main() and of the client call in progress
    run,                         \* "first" or "second" run of the script
    pc,                          \* the position of the run
    offset,                      \* get_confluence_mappings: offset
    confluence_mappings,         \* get_confluence_mappings: mappings
    docfx_uid_to_confluence_id,  \* main: table by DocFX UID
    docfx_href_to_confluence_id, \* main: table by site path
    existing_mappings,           \* main: the units to update
    new_mappings,                \* main: the units to create
    created,                     \* units of new_mappings the first for loop has done
    updated,                     \* units of existing_mappings the second for loop has done
    page_id,                     \* create_page / update_page: page_id
    page_version,                \* update_page: page_version
    page_content,                \* main: page_content after transform_links
    \* ---- what the run has done (history)
    calls,                       \* create_page / transform_links / update_page calls of this run
    wire,                        \* HTTP requests of this run, with their outcome
    reported,                    \* UIDs printed as "Updated:" by this run
    firstOutcome,                \* how the first run ended, once the second began
    createdEarlier,              \* UIDs for which the first run created a page
    firstUploads,                \* <<UID, content>> of the update_page calls of the first run
    edits,                       \* edits that other users of the server have made
    \* ---- transform_links run on its own
    base_dir,                    \* transform_links: base_dir
    content_html,                \* transform_links: the parsed fragment
    mappings,                    \* transform_links: mappings
    anchor_i,                    \* transform_links: position of the for loop
    warnings,                    \* transform_links: the WARNING lines printed
    tl_pc,                       \* transform_links: "idle", "loop" or "returned"
    content,                     \* transform_links: the elements of the content it was given
    content_text,                \* transform_links: the text of that content before its first element
    returned                     \* transform_links: << >>, or <<the markup it returned>>

mainVars == <<docfx_mappings, store, run, pc, offset, confluence_mappings,
              docfx_uid_to_confluence_id, docfx_href_to_confluence_id,
              existing_mappings, new_mappings, created, updated, page_id,
              page_version, page_content, calls, wire, reported, firstOutcome,
              createdEarlier, confluence_space, firstUploads, edits>>

linkVars == <<base_dir, content_html, mappings, anchor_i, warnings, tl_pc, content,
              content_text, returned>>

vars == <<mainVars, linkVars>>

(***************************************************************************)
(* Bounds of the model.                                                    *)
(***************************************************************************)
MaxUnits == 2        \* units in the xref map
MaxInitPages == 1    \* pages on the server before the first run
MaxElements == 2     \* elements of a fragment given to transform_links alone
MaxEdits == 1        \* edits by other users during a run
MaxListed == 101     \* pages of a server whose listing is read alone

(***************************************************************************)
(* String functions of the Python library, on token sequences.             *)
(***************************************************************************)
RECURSIVE LStrip(_)
\* str.lstrip("/")
LStrip(s) ==
    IF s # << >> /\ Head(s) = "/" THEN LStrip(Tail(s)) ELSE s

RECURSIVE RStrip(_)
\* str.rstrip("/")
RStrip(s) ==
    IF s # << >> /\ s[Len(s)] = "/" THEN RStrip(SubSeq(s, 1, Len(s) - 1)) ELSE s

\* the largest i with p[i] = "/", or 0: str.rfind("/") + 1
RFindSlash(p) ==
    LET at == {i \in 1..Len(p) : p[i] = "/"}
    IN  IF at = {} THEN 0 ELSE CHOOSE i \in at : \A j \in at : j <= i

\* os.path.dirname
Dirname(p) ==
    LET head == SubSeq(p, 1, RFindSlash(p))
    IN  IF head # << >> /\ (\E i \in 1..Len(head) : head[i] # "/")
        THEN RStrip(head)
        ELSE head

\* urlparse(href): the number of tokens that the scheme ("http:") and the
\* network location ("//" and what follows it up to the next "/", "?" or "#")
\* take at the front of the href
UrlPathStart(href) ==
    LET scheme == IF href # << >> /\ href[1] = "http:" THEN 1 ELSE 0
        slashes == /\ Len(href) >= scheme + 2
                   /\ href[scheme + 1] = "/"
                   /\ href[scheme + 2] = "/"
        ends == {i \in (scheme + 3)..Len(href) : href[i] \in {"/", "?", "#"}}
    IN  IF ~slashes THEN scheme
        ELSE IF ends = {} THEN Len(href)
        ELSE (CHOOSE i \in ends : \A j \in ends : i <= j) - 1

\* the path component of urlparse(href): what follows the scheme and the
\* network location, up to the query or fragment
UrlPath(href) ==
    LET start == UrlPathStart(href)
        stop  == {i \in (start + 1)..Len(href) : href[i] \in {"?", "#"}}
    IN  IF stop = {} THEN SubSeq(href, start + 1, Len(href))
        ELSE SubSeq(href, start + 1, (CHOOSE i \in stop : \A j \in stop : i <= j) - 1)

RECURSIVE ReplaceEmpty(_, _)
\* s.replace("", new): new before every character and at the end
ReplaceEmpty(s, new) ==
    IF s = << >> THEN new ELSE new \o <<Head(s)>> \o ReplaceEmpty(Tail(s), new)

RECURSIVE ReplaceFrom(_, _, _)
ReplaceFrom(s, old, new) ==
    IF Len(s) < Len(old) THEN s
    ELSE IF SubSeq(s, 1, Len(old)) = old
         THEN new \o ReplaceFrom(SubSeq(s, Len(old) + 1, Len(s)), old, new)
         ELSE <<Head(s)>> \o ReplaceFrom(Tail(s), old, new)

\* str.replace(old, new): every occurrence, left to right
Replace(s, old, new) ==
    IF old = << >> THEN ReplaceEmpty(s, new) ELSE ReplaceFrom(s, old, new)

\* dict[key] = value
DictSet(d, key, value) ==
    [k \in DOMAIN d \cup {key} |-> IF k = key THEN value ELSE d[k]]

EmptyDict == [k \in {} |-> 0]

(***************************************************************************)
(* transform_links                                                         *)
(***************************************************************************)
\* "/pages/viewpage.action?pageId={}".format(page_id)
ViewerUrl(id) ==
    <<"/", "pages", "/", "viewpage.action", "?", "pageId=", ToString(id)>>

\* content_html.cssselect("a.xref")
IsXrefAnchor(el) == el.tag = "a" /\ el.class = "xref"

\* relative_path = base_dir + "/" + path.lstrip("/")
RelativePath(dir, path) == dir \o <<"/">> \o LStrip(path)

\* Variant of TransformAnchor: the "continue" after the warning is missing, so
\* the href is rewritten with the page id None.
TransformAnchorNoContinue(dir, el, table) ==
    IF el.href = << >>
    THEN [el |-> el, warned |-> << >>]
    ELSE LET href == el.href[1]
             path == UrlPath(href)
             relative_path == RelativePath(dir, path)
         IN  IF relative_path \notin DOMAIN table
             THEN [el |-> [el EXCEPT !.href =
                              <<Replace(href, path,
                                        <<"/", "pages", "/", "viewpage.action", "?",
                                          "pageId=", "None">>)>>],
                   warned |-> <<relative_path>>]
             ELSE [el |-> [el EXCEPT !.href =
                              <<Replace(href, path, ViewerUrl(table[relative_path]))>>],
                   warned |-> << >>]

\* One iteration of the loop over the anchors: the anchor afterwards and the
\* warning lines printed.  An element's href is << >> (no attribute) or <<h>>.
TransformAnchor(dir, el, table) ==
    IF el.href = << >>
    THEN [el |-> el, warned |-> << >>]
    ELSE LET href == el.href[1]
             path == UrlPath(href)
             relative_path == RelativePath(dir, path)
         IN  IF relative_path \notin DOMAIN table
             THEN [el |-> el, warned |-> <<relative_path>>]
             ELSE [el |-> [el EXCEPT !.href =
                              <<Replace(href, path, ViewerUrl(table[relative_path]))>>],
                   warned |-> << >>]

\* The positions of the elements that the selector returns, in document order.
RECURSIVE AnchorsFrom(_, _)
AnchorsFrom(html, i) ==
    IF i > Len(html) THEN << >>
    ELSE (IF IsXrefAnchor(html[i]) THEN <<i>> ELSE << >>) \o AnchorsFrom(html, i + 1)

Anchors(html) == AnchorsFrom(html, 1)

RECURSIVE TransformFrom(_, _, _, _, _)
TransformFrom(dir, html, table, k, warned) ==
    IF k > Len(Anchors(html)) THEN [content |-> html, warned |-> warned]
    ELSE LET at == Anchors(html)[k]
             r  == TransformAnchor(dir, html[at], table)
         IN  TransformFrom(dir, [html EXCEPT ![at] = r.el], table, k + 1,
                           warned \o r.warned)

\* transform_links(base_dir, content, mappings), with what it printed
TransformLinks(dir, html, table) == TransformFrom(dir, html, table, 1, << >>)

(***************************************************************************)
(* The generated site: the references of the xref map and the files.       *)
(***************************************************************************)
Xref(h) == [tag |-> "a", class |-> "xref", href |-> <<h>>]

\* The references an xref map may hold: a page of the site root, a page of a
\* sub-directory, and a page whose href is written with a leading slash.
Catalog ==
    { [uid |-> "a", href |-> <<"a.html">>, name |-> "A"],
      [uid |-> "b", href |-> <<"sub", "/", "b.html">>, name |-> "B"],
      [uid |-> "c", href |-> <<"/", "c.html">>, name |-> "C"] }

\* The rendered content of each page of the site, as the elements that
\* html.fragment_fromstring gives for it.
PageFile(uid) ==
    CASE uid = "a" -> << Xref(<<"sub", "/", "b.html">>),
                         Xref(<<"c.html", "#", "frag">>),
                         [tag |-> "p", class |-> "", href |-> << >>] >>
      [] uid = "b" -> << Xref(<<"b.html">>),
                         Xref(<<"missing.html">>) >>
      [] OTHER     -> << Xref(<<"/", "a.html">>),
                         [tag |-> "a", class |-> "", href |-> << <<"a.html">> >>] >>

\* The space keys that --confluence-space may name.
Spaces == { "DOCS", "TEST" }

\* The xref maps: lists of references with unique UIDs.
Manifests ==
    { m \in UNION { [1..n -> Catalog] : n \in 1..MaxUnits } :
        \A i, j \in DOMAIN m : m[i].uid = m[j].uid => i = j }

\* A page of the server: its version number and its docfx property, << >> when
\* the page has none, else <<[docfx_uid, docfx_href]>>.
Docfx(uid, href) == <<[docfx_uid |-> uid, docfx_href |-> href]>>

InitialPages ==
    { [version |-> 3, docfx |-> << >>],
      [version |-> 1, docfx |-> Docfx("a", <<"a.html">>)],
      [version |-> 4, docfx |-> Docfx("b", <<"sub", "/", "b.html">>)],
      [version |-> 2, docfx |-> Docfx("c", <<"/", "c.html">>)] }

\* a server with a page published when b was at another place of the site
MovedStores ==
    { << [version |-> 1, docfx |-> Docfx("b", <<"old", "/", "b.html">>)] >> }

\* servers on which several pages carry the same docfx_uid or docfx_href
DuplicateStores ==
    { << [version |-> 1, docfx |-> Docfx("a", <<"a.html">>)],
         [version |-> 2, docfx |-> Docfx("a", <<"a.html">>)] >>,
      << [version |-> 1, docfx |-> Docfx("a", <<"sub", "/", "b.html">>)],
         [version |-> 4, docfx |-> Docfx("b", <<"sub", "/", "b.html">>)] >>,
      << [version |-> 2, docfx |-> Docfx("b", <<"sub", "/", "b.html">>)],
         [version |-> 1, docfx |-> Docfx("b", <<"old", "/", "b.html">>)] >> }

InitialStores ==
    UNION { [1..n -> InitialPages] : n \in 0..MaxInitPages }
        \cup DuplicateStores \cup MovedStores

(***************************************************************************)
(* get_confluence_mappings                                                 *)
(***************************************************************************)
step == 50

\* Variant of NextOffset: one page is skipped between two requests.
NextOffsetSkips(off) == off + step + 1

\* offset += step
NextOffset(off) == off + step

\* The server's answer to the listing request: the pages start+1 .. start+limit
\* in id order, each with its id.
Listing(pages, start, limit) ==
    LET last == IF start + limit < Len(pages) THEN start + limit ELSE Len(pages)
    IN  [i \in 1..(IF last > start THEN last - start ELSE 0) |->
            [id |-> start + i, docfx |-> pages[start + i].docfx]]

RECURSIVE MappingsOf(_)
\* the loop over results["results"]: pages without the docfx property are skipped
MappingsOf(results) ==
    IF results = << >> THEN << >>
    ELSE LET result == Head(results)
         IN  (IF result.docfx = << >> THEN << >>
              ELSE << [confluence_id |-> result.id,
                       docfx_uid |-> result.docfx[1].docfx_uid,
                       docfx_href |-> result.docfx[1].docfx_href] >>)
             \o MappingsOf(Tail(results))

(***************************************************************************)
(* main: the two tables and the partition of the units                     *)
(***************************************************************************)
RECURSIVE UidTableFrom(_, _)
UidTableFrom(entries, d) ==
    IF entries = << >> THEN d
    ELSE UidTableFrom(Tail(entries),
                      DictSet(d, Head(entries).docfx_uid, Head(entries).confluence_id))

RECURSIVE Reverse(_)
Reverse(s) == IF s = << >> THEN << >> ELSE Append(Reverse(Tail(s)), Head(s))

\* Variant of UidTable: the first entry of a key is kept.
UidTableFirstWins(entries) == UidTableFrom(Reverse(entries), EmptyDict)

\* { entry["docfx_uid"] : entry["confluence_id"] for entry in confluence_mappings }
UidTable(entries) == UidTableFrom(entries, EmptyDict)

RECURSIVE HrefTableFrom(_, _)
HrefTableFrom(entries, d) ==
    IF entries = << >> THEN d
    ELSE HrefTableFrom(Tail(entries),
                       DictSet(d, LStrip(Head(entries).docfx_href),
                               Head(entries).confluence_id))

\* { entry["docfx_href"].lstrip("/") : entry["confluence_id"] for entry in ... }
HrefTable(entries) == HrefTableFrom(entries, EmptyDict)

WithId(mapping, id) ==
    [uid |-> mapping.uid, href |-> mapping.href, name |-> mapping.name,
     confluence_id |-> id]

RECURSIVE ExistingMappings(_, _)
\* the loop that fills existing_mappings: the units found in the table, in order
ExistingMappings(units, table) ==
    IF units = << >> THEN << >>
    ELSE (IF Head(units).uid \in DOMAIN table
          THEN <<WithId(Head(units), table[Head(units).uid])>>
          ELSE << >>)
         \o ExistingMappings(Tail(units), table)

RECURSIVE NewMappings(_, _)
\* [m for m in docfx_mappings if m["uid"] not in docfx_uid_to_confluence_id]
NewMappings(units, table) ==
    IF units = << >> THEN << >>
    ELSE (IF Head(units).uid \notin DOMAIN table THEN <<Head(units)>> ELSE << >>)
         \o NewMappings(Tail(units), table)

\* "DocFX - {name} ({uid})".format(**mapping)
Title(mapping) == <<"DocFX - ", mapping.name, " (", mapping.uid, ")">>

\* Variants of AppendCreated: the append is forgotten; the unit is put first.
AppendCreatedForgotten(existing, mapping) == existing

AppendCreatedFirst(existing, mapping) == <<mapping>> \o existing

\* existing_mappings.append(mapping), after the page was created
AppendCreated(existing, mapping) == Append(existing, mapping)

\* the key under which a created page enters the table by site path
CreatedKey(mapping) == mapping.href

\* Variant of Schedule: one pass, a page is updated as soon as it is known.
ScheduleSinglePass(existing, new, made, done) ==
    IF done < Len(existing) THEN "update_get"
    ELSE IF made < Len(new) THEN "create_page"
    ELSE "done"

\* What main() does next, when the first for loop has done `made` units of
\* new_mappings and the second `done` units of existing_mappings: the loop
\* over new_mappings runs to its end before the loop over existing_mappings.
Schedule(existing, new, made, done) ==
    IF made < Len(new) THEN "create_page"
    ELSE IF done < Len(existing) THEN "update_get"
    ELSE "done"

\* Variants of the two checks below: the answer is not looked at.
CreateAnswerUnchecked(ok) == FALSE

PutAnswerUnchecked(ok) == FALSE

\* create_page: "id" not in response, for the answer to the POST of the page
CreateAnswerLacksId(ok) == ~ok

\* update_page: "id" not in response, for the answer to the PUT
PutAnswerLacksId(ok) == ~ok

\* Variants of SubmittedVersion: the fetched number is sent back unchanged.
SubmittedVersionStale(fetched) == fetched

SubmittedVersionSkips(fetched) == fetched + 2

\* the version number that update_page submits
SubmittedVersion(fetched) == fetched + 1

(***************************************************************************)
(* The run of main().  Every HTTP request is one step; the server answers  *)
(* it with a success payload (ok) or with a failure payload (a "message"   *)
(* and no "id").  A failed request changes nothing on the server.          *)
(***************************************************************************)
Request(method, uid, page, ok, number) ==
    [method |-> method, uid |-> uid, page |-> page, ok |-> ok, number |-> number]

Call(op, uid, page, title, space_key, body) ==
    [op |-> op, uid |-> uid, page |-> page, title |-> title,
     space_key |-> space_key, content |-> body]

Running == {"list", "index", "create_page", "create_property", "update_get",
            "update_put", "update_delete", "update_property"}

\* transform_links is not in progress on its own while main() runs
LinksIdle ==
    /\ base_dir = << >>
    /\ content_html = << >>
    /\ mappings = EmptyDict
    /\ anchor_i = 0
    /\ warnings = << >>
    /\ tl_pc = "idle"
    /\ content = << >>
    /\ content_text = ""
    /\ returned = << >>

\* the locals of main() before its first statement
FreshRun ==
    /\ pc' = "list"
    /\ offset' = 0
    /\ confluence_mappings' = << >>
    /\ docfx_uid_to_confluence_id' = EmptyDict
    /\ docfx_href_to_confluence_id' = EmptyDict
    /\ existing_mappings' = << >>
    /\ new_mappings' = << >>
    /\ created' = 0
    /\ updated' = 0
    /\ page_id' = 0
    /\ page_version' = 0
    /\ page_content' = << >>
    /\ calls' = << >>
    /\ wire' = << >>
    /\ reported' = << >>

\* main() about to start for the first time
MainStart ==
    /\ run = "first"
    /\ pc = "list"
    /\ offset = 0
    /\ confluence_mappings = << >>
    /\ docfx_uid_to_confluence_id = EmptyDict
    /\ docfx_href_to_confluence_id = EmptyDict
    /\ existing_mappings = << >>
    /\ new_mappings = << >>
    /\ created = 0
    /\ updated = 0
    /\ page_id = 0
    /\ page_version = 0
    /\ page_content = << >>
    /\ calls = << >>
    /\ wire = << >>
    /\ reported = << >>
    /\ firstOutcome = "none"
    /\ createdEarlier = {}
    /\ firstUploads = {}
    /\ edits = 0
    /\ LinksIdle

Init ==
    /\ docfx_mappings \in Manifests
    /\ store \in InitialStores
    /\ confluence_space = "TEST"
    /\ MainStart

\* an exception leaves main(): the run is over
Raise == pc' = "aborted"

\* get_confluence_mappings: one iteration of the while loop
ListPages ==
    /\ pc = "list"
    /\ \E ok \in BOOLEAN :
        LET results == Listing(store, offset, step) IN
        /\ wire' = Append(wire, Request("LIST", "", 0, ok, offset))
        /\ IF ~ok
           THEN Raise /\ UNCHANGED <<offset, confluence_mappings>>
           ELSE IF Len(results) = 0
                THEN /\ pc' = "index"
                     /\ UNCHANGED <<offset, confluence_mappings>>
                ELSE /\ pc' = "list"
                     /\ confluence_mappings' = confluence_mappings \o MappingsOf(results)
                     /\ offset' = NextOffset(offset)
    /\ UNCHANGED <<docfx_mappings, store, run, docfx_uid_to_confluence_id,
                   docfx_href_to_confluence_id, existing_mappings, new_mappings,
                   created, updated, page_id, page_version, page_content, calls,
                   reported,
                   firstOutcome, createdEarlier, linkVars,
                   confluence_space, firstUploads, edits>>

\* main: the tables, existing_mappings and new_mappings
BuildIndex ==
    /\ pc = "index"
    /\ LET table    == UidTable(confluence_mappings)
           existing == ExistingMappings(docfx_mappings, table)
           new      == NewMappings(docfx_mappings, table)
       IN  /\ docfx_uid_to_confluence_id' = table
           /\ docfx_href_to_confluence_id' = HrefTable(confluence_mappings)
           /\ existing_mappings' = existing
           /\ new_mappings' = new
           /\ pc' = Schedule(existing, new, 0, 0)
    /\ UNCHANGED <<docfx_mappings, store, run, offset, confluence_mappings,
                   created, updated, page_id, page_version, page_content, calls, wire, reported,
                   firstOutcome, createdEarlier, linkVars,
                   confluence_space, firstUploads, edits>>

\* pass 1, one unit: create_page is called and POSTs the page
CreatePage ==
    /\ pc = "create_page"
    /\ LET mapping == new_mappings[created + 1] IN
       /\ calls' = Append(calls, Call("create_page", mapping.uid, 0, Title(mapping),
                                      "TEST", << >>))
       /\ \E ok \in BOOLEAN :
           /\ wire' = Append(wire, Request("POST_PAGE", mapping.uid, IF ok THEN Len(store) + 1 ELSE 0, ok, 0))
           /\ store' = IF ok THEN Append(store, [version |-> 1, docfx |-> << >>])
                       ELSE store
           /\ page_id' = IF ok THEN Len(store) + 1 ELSE page_id
           /\ IF CreateAnswerLacksId(ok) THEN Raise ELSE pc' = "create_property"
    /\ UNCHANGED <<docfx_mappings, run, offset, confluence_mappings,
                   docfx_uid_to_confluence_id, docfx_href_to_confluence_id,
                   existing_mappings, new_mappings, created, updated,
                   page_version, page_content, reported, firstOutcome, createdEarlier, linkVars,
                   confluence_space, firstUploads, edits>>

\* create_page POSTs the docfx property and returns; main extends the tables
CreateProperty ==
    /\ pc = "create_property"
    /\ LET mapping  == new_mappings[created + 1]
           existing == AppendCreated(existing_mappings, WithId(mapping, page_id))
       IN
       /\ \E ok \in BOOLEAN :
           /\ wire' = Append(wire, Request("POST_PROPERTY", mapping.uid, page_id, ok, 0))
           /\ store' = IF ok
                       THEN [store EXCEPT ![page_id].docfx =
                                Docfx(mapping.uid, mapping.href)]
                       ELSE store
       /\ docfx_uid_to_confluence_id' =
              DictSet(docfx_uid_to_confluence_id, mapping.uid, page_id)
       /\ docfx_href_to_confluence_id' =
              DictSet(docfx_href_to_confluence_id, CreatedKey(mapping), page_id)
       /\ existing_mappings' = existing
       /\ created' = created + 1
       /\ pc' = Schedule(existing, new_mappings, created + 1, updated)
    /\ UNCHANGED <<docfx_mappings, run, offset, confluence_mappings, new_mappings,
                   updated, page_id, page_version, page_content, calls, reported,
                   firstOutcome, createdEarlier, linkVars,
                   confluence_space, firstUploads, edits>>

\* pass 2, one unit: the file is read and its links rewritten, update_page is
\* called and GETs the page
UpdateGet ==
    /\ pc = "update_get"
    /\ LET mapping  == existing_mappings[updated + 1]
           page_dir == Dirname(LStrip(mapping.href))
           result   == TransformLinks(page_dir, PageFile(mapping.uid),
                                      docfx_href_to_confluence_id)
       IN
       /\ page_content' = result.content
       /\ page_id' = mapping.confluence_id
       /\ calls' = calls \o
              << Call("transform_links", mapping.uid, 0, << >>, "", result.content),
                 Call("update_page", mapping.uid, mapping.confluence_id,
                      Title(mapping), "", result.content) >>
       /\ \E ok \in BOOLEAN :
           /\ wire' = Append(wire, Request("GET", mapping.uid, mapping.confluence_id, ok,
                                           store[mapping.confluence_id].version))
           /\ IF ok
              THEN /\ page_version' = store[mapping.confluence_id].version
                   /\ pc' = "update_put"
              ELSE Raise /\ UNCHANGED page_version
    /\ UNCHANGED <<docfx_mappings, store, run, offset, confluence_mappings,
                   docfx_uid_to_confluence_id, docfx_href_to_confluence_id,
                   existing_mappings, new_mappings, created, updated, reported,
                   firstOutcome, createdEarlier, linkVars,
                   confluence_space, firstUploads, edits>>

\* update_page PUTs the page with the next version number
UpdatePut ==
    /\ pc = "update_put"
    /\ \E ok \in BOOLEAN :
        \* the server accepts only the version that follows the current one
        /\ ok => SubmittedVersion(page_version) = store[page_id].version + 1
        /\ wire' = Append(wire, Request("PUT", existing_mappings[updated + 1].uid,
                                        page_id, ok, SubmittedVersion(page_version)))
        /\ store' = IF ok
                    THEN [store EXCEPT ![page_id].version =
                             SubmittedVersion(page_version)]
                    ELSE store
        /\ IF PutAnswerLacksId(ok) THEN Raise ELSE pc' = "update_delete"
    /\ UNCHANGED <<docfx_mappings, run, offset, confluence_mappings,
                   docfx_uid_to_confluence_id, docfx_href_to_confluence_id,
                   existing_mappings, new_mappings, created, updated, page_id,
                   page_version, page_content, calls, reported, firstOutcome,
                   createdEarlier, linkVars,
                   confluence_space, firstUploads, edits>>

\* update_page DELETEs the docfx property
UpdateDelete ==
    /\ pc = "update_delete"
    /\ \E ok \in BOOLEAN :
        /\ wire' = Append(wire, Request("DELETE", existing_mappings[updated + 1].uid, page_id, ok, 0))
        /\ IF ok
           THEN /\ store' = [store EXCEPT ![page_id].docfx = << >>]
                /\ pc' = "update_property"
           ELSE Raise /\ UNCHANGED store
    /\ UNCHANGED <<docfx_mappings, run, offset, confluence_mappings,
                   docfx_uid_to_confluence_id, docfx_href_to_confluence_id,
                   existing_mappings, new_mappings, created, updated, page_id,
                   page_version, page_content, calls, reported, firstOutcome,
                   createdEarlier, linkVars,
                   confluence_space, firstUploads, edits>>

\* update_page POSTs the docfx property and returns; main prints "Updated:"
UpdateProperty ==
    /\ pc = "update_property"
    /\ LET mapping == existing_mappings[updated + 1] IN
       /\ \E ok \in BOOLEAN :
           /\ wire' = Append(wire, Request("POST_PROPERTY", mapping.uid, page_id, ok, 0))
           /\ store' = IF ok
                       THEN [store EXCEPT ![page_id].docfx =
                                Docfx(mapping.uid, mapping.href)]
                       ELSE store
       /\ reported' = Append(reported, mapping.uid)
       /\ updated' = updated + 1
       /\ pc' = Schedule(existing_mappings, new_mappings, created, updated + 1)
    /\ UNCHANGED <<docfx_mappings, run, offset, confluence_mappings,
                   docfx_uid_to_confluence_id, docfx_href_to_confluence_id,
                   existing_mappings, new_mappings, created, page_id,
                   page_version, page_content, calls, firstOutcome,
                   createdEarlier, linkVars,
                   confluence_space, firstUploads, edits>>

\* the process ends between two requests (it is killed, or the HTTP library
\* raises on a broken connection)
Stop ==
    /\ pc \in Running
    /\ pc' = "aborted"
    /\ UNCHANGED <<docfx_mappings, store, run, offset, confluence_mappings,
                   docfx_uid_to_confluence_id, docfx_href_to_confluence_id,
                   existing_mappings, new_mappings, created, updated, page_id,
                   page_version, page_content, calls, wire, reported,
                   firstOutcome, createdEarlier, linkVars,
                   confluence_space, firstUploads, edits>>

\* the script is started again, once, on what the first run left on the server
RunAgain ==
    /\ run = "first"
    /\ pc \in {"done", "aborted"}
    /\ run' = "second"
    /\ firstOutcome' = pc
    /\ createdEarlier' = { wire[i].uid : i \in
                             { j \in 1..Len(wire) : /\ wire[j].method = "POST_PAGE"
                                                    /\ wire[j].ok } }
    /\ firstUploads' = { <<calls[i].uid, calls[i].content>> : i \in
                           { j \in 1..Len(calls) : calls[j].op = "update_page" } }
    /\ FreshRun
    /\ UNCHANGED <<docfx_mappings, store, linkVars, confluence_space, edits>>

\* another user of the server edits a page while the script runs
Edit ==
    /\ pc \in Running
    /\ edits < MaxEdits
    /\ edits' = edits + 1
    /\ \E p \in DOMAIN store :
          store' = [store EXCEPT ![p].version = store[p].version + 1]
    /\ UNCHANGED <<docfx_mappings, run, pc, offset, confluence_mappings,
                   docfx_uid_to_confluence_id, docfx_href_to_confluence_id,
                   existing_mappings, new_mappings, created, updated, page_id,
                   page_version, page_content, calls, wire, reported,
                   firstOutcome, createdEarlier, linkVars,
                   confluence_space, firstUploads>>

Next ==
    \/ ListPages
    \/ BuildIndex
    \/ CreatePage
    \/ CreateProperty
    \/ UpdateGet
    \/ UpdatePut
    \/ UpdateDelete
    \/ UpdateProperty
    \/ Stop
    \/ RunAgain

Spec == Init /\ [][Next]_vars

\* Runs of main() with any --confluence-space, on a server without pages.
InitSpaces ==
    /\ docfx_mappings \in Manifests
    /\ store = << >>
    /\ confluence_space \in Spaces
    /\ MainStart

SpecSpaces == InitSpaces /\ [][Next]_vars

\* get_confluence_mappings alone, on servers of many pages.  Page i carries
\* the docfx property when i is a multiple of the period; period 0: no page.
Periods == {0, 1, 2, 3}

ListedStore(n, period) ==
    [i \in 1..n |->
        [version |-> 1,
         docfx   |-> IF period # 0 /\ i % period = 0
                     THEN Docfx(ToString(i), <<ToString(i)>>)
                     ELSE << >>]]

InitListing ==
    /\ docfx_mappings = << >>
    /\ store \in { ListedStore(n, period) : n \in 0..MaxListed, period \in Periods }
    /\ confluence_space = "TEST"
    /\ MainStart

NextListing == ListPages

\* the while loop runs on until it breaks or an exception leaves it
SpecListing == InitListing /\ [][NextListing]_vars /\ WF_vars(NextListing)

\* One run of main() on a server that other users edit meanwhile.
InitEditor == Init

NextEditor ==
    \/ ListPages
    \/ BuildIndex
    \/ CreatePage
    \/ CreateProperty
    \/ UpdateGet
    \/ UpdatePut
    \/ UpdateDelete
    \/ UpdateProperty
    \/ Edit

SpecEditor == InitEditor /\ [][NextEditor]_vars

(***************************************************************************)
(* transform_links on its own: one step per iteration of its for loop.     *)
(***************************************************************************)
BaseDirs == { << >>, <<"sub">> }

Elements ==
    { Xref(<<"/", "c.html", "#", "frag">>),
      Xref(<<"c.html">>),
      Xref(<<"b.html">>),
      Xref(<<"missing.html">>),
      Xref(<<"#", "frag">>),
      Xref(<<"b.html", "#", "b.html">>),
      Xref(<<"http:", "/", "/", "host", "/", "c.html", "?", "q">>),
      [tag |-> "a", class |-> "xref", href |-> << >>],
      [tag |-> "a", class |-> "", href |-> << <<"c.html">> >>],
      [tag |-> "p", class |-> "", href |-> << >>] }

\* html.fragment_fromstring(content, create_parent="div") puts the text that
\* precedes the first element in the text of the div and the elements under
\* it; the text is "" when the content starts with an element.
LeadingTexts == { "", "Intro" }

\* the markup returned: the children of the div, each serialized with the
\* text that follows it, joined; the text of the div itself is not written
Serialized(html) == [text |-> "", elements |-> html]

Fragments == UNION { [1..n -> Elements] : n \in 1..MaxElements }

Tables ==
    { EmptyDict,
      (<<"c.html">> :> 42),
      (<<"/", "c.html">> :> 42) @@ (<<"sub", "/", "b.html">> :> 7) }

\* main() is not running while transform_links is exercised on its own
MainIdle ==
    /\ docfx_mappings = << >>
    /\ store = << >>
    /\ run = "first"
    /\ pc = "links"
    /\ offset = 0
    /\ confluence_mappings = << >>
    /\ docfx_uid_to_confluence_id = EmptyDict
    /\ docfx_href_to_confluence_id = EmptyDict
    /\ existing_mappings = << >>
    /\ new_mappings = << >>
    /\ created = 0
    /\ updated = 0
    /\ page_id = 0
    /\ page_version = 0
    /\ page_content = << >>
    /\ calls = << >>
    /\ wire = << >>
    /\ reported = << >>
    /\ firstOutcome = "none"
    /\ createdEarlier = {}
    /\ firstUploads = {}
    /\ confluence_space = "TEST"
    /\ edits = 0

InitLinks ==
    /\ MainIdle
    /\ base_dir \in BaseDirs
    /\ content \in Fragments
    /\ content_text \in LeadingTexts
    /\ returned = << >>
    /\ mappings \in Tables
    /\ content_html = content
    /\ anchor_i = 0
    /\ warnings = << >>
    /\ tl_pc = "loop"

\* one iteration of "for anchor in anchors"
TransformStep ==
    /\ tl_pc = "loop"
    /\ anchor_i < Len(Anchors(content))
    /\ LET at == Anchors(content)[anchor_i + 1]
           r  == TransformAnchor(base_dir, content_html[at], mappings)
       IN  /\ content_html' = [content_html EXCEPT ![at] = r.el]
           /\ warnings' = warnings \o r.warned
    /\ anchor_i' = anchor_i + 1
    /\ UNCHANGED <<base_dir, mappings, tl_pc, content, content_text, returned,
                   mainVars>>

\* the loop is over: the elements are serialized and returned
TransformReturn ==
    /\ tl_pc = "loop"
    /\ anchor_i = Len(Anchors(content))
    /\ tl_pc' = "returned"
    /\ returned' = <<Serialized(content_html)>>
    /\ UNCHANGED <<base_dir, content_html, mappings, anchor_i, warnings, content,
                   content_text, mainVars>>

NextLinks ==
    \/ TransformStep
    \/ TransformReturn

SpecLinks == InitLinks /\ [][NextLinks]_vars

(***************************************************************************)
(* Properties of the run of main().                                        *)
(***************************************************************************)
CallsOf(op) == { i \in 1..Len(calls) : calls[i].op = op }

CreatedNow(uid) == \E i \in CallsOf("create_page") : calls[i].uid = uid

\* the position of a UID in the xref map
UnitIndex(uid) == CHOOSE i \in 1..Len(docfx_mappings) : docfx_mappings[i].uid = uid

UnitOf(uid) == docfx_mappings[UnitIndex(uid)]

\* the UIDs that the listing of this run returned
ListedUids == { confluence_mappings[i].docfx_uid : i \in 1..Len(confluence_mappings) }

\* the calls of the run without the transform_links calls
RECURSIVE RemoteCallsFrom(_)
RemoteCallsFrom(cs) ==
    IF cs = << >> THEN << >>
    ELSE (IF Head(cs).op = "transform_links" THEN << >>
          ELSE << <<Head(cs).op, Head(cs).uid>> >>) \o RemoteCallsFrom(Tail(cs))

\* C1: when main() has run to completion twice in succession, nothing else
\* having changed the server in between, the second run has issued no
\* create_page call.
C1_SecondRunCreatesNothing ==
    (run = "second" /\ firstOutcome = "done" /\ pc = "done")
        => CallsOf("create_page") = {}

\* C2: when the first run stopped part-way and the second run is complete, the
\* second run has issued no create_page call for a unit for which the first
\* run had already created a page.
C2_RerunCreatesNoDuplicate ==
    (run = "second" /\ firstOutcome = "aborted" /\ pc = "done")
        => \A i \in CallsOf("create_page") : calls[i].uid \notin createdEarlier

\* The site path that a link of a page in directory dir names: the link's path
\* taken relative to that directory, the site root being "".
Resolve(dir, path) ==
    IF dir = << >> THEN LStrip(path) ELSE dir \o <<"/">> \o LStrip(path)

StartsWith(s, prefix) ==
    Len(s) >= Len(prefix) /\ SubSeq(s, 1, Len(prefix)) = prefix

\* C3: a unit absent from the table by UID gets exactly one create_page call,
\* and in pass 2 every cross-reference anchor that points at the site path of a
\* unit created in this run is rewritten to the id of the created page.
C3_CreatedPageResolvable ==
    /\ pc = "done" =>
         \A n \in 1..Len(docfx_mappings) :
            docfx_mappings[n].uid \notin ListedUids =>
               Cardinality({ i \in CallsOf("create_page") :
                               calls[i].uid = docfx_mappings[n].uid }) = 1
    /\ \A i \in CallsOf("update_page") :
         LET from == UnitOf(calls[i].uid)
             dir  == Dirname(LStrip(from.href))
             file == PageFile(from.uid)
         IN  \A k \in 1..Len(file) : \A m \in 1..Len(existing_mappings) :
               LET target == existing_mappings[m] IN
               ( /\ IsXrefAnchor(file[k])
                 /\ file[k].href # << >>
                 /\ CreatedNow(target.uid)
                 /\ Resolve(dir, UrlPath(file[k].href[1])) = LStrip(target.href) )
               => StartsWith(calls[i].content[k].href[1],
                             ViewerUrl(target.confluence_id))

\* C4: in every run, no create_page call is issued after the first
\* transform_links or update_page call of the run.
C4_CreationBeforeRewriting ==
    \A i, j \in 1..Len(calls) :
        (i < j /\ calls[i].op \in {"transform_links", "update_page"})
            => calls[j].op # "create_page"

C4_Witness ==
    /\ pc = "done"
    /\ \E i, j \in 1..Len(calls) :
          i < j /\ calls[i].op = "create_page" /\ calls[j].op = "update_page"

\* C5: every PUT of update_page follows the successful GET of the same page
\* and carries the version number of that GET's answer plus one; a GET whose
\* answer has no id ends the run, with no PUT, DELETE or POST for that page.
C5_NextVersionOrRaise ==
    /\ \A i \in 1..Len(wire) :
          wire[i].method = "PUT" =>
             /\ i > 1
             /\ wire[i - 1].method = "GET"
             /\ wire[i - 1].ok
             /\ wire[i - 1].page = wire[i].page
             /\ wire[i].number = wire[i - 1].number + 1
    /\ \A i \in 1..Len(wire) :
          (wire[i].method = "GET" /\ ~wire[i].ok) =>
             /\ pc = "aborted"
             /\ \A j \in 1..Len(wire) : j > i => wire[j].page # wire[i].page

C5_Witness ==
    /\ \E i \in 1..Len(wire) : wire[i].method = "PUT" /\ wire[i].ok /\ wire[i].number > 2
    /\ wire[Len(wire)].method = "GET"
    /\ ~wire[Len(wire)].ok

\* C6: a successful run over units with unique UIDs issues one create_page call
\* for each unit whose UID the listing does not hold and none for the others,
\* then one update_page call for every unit, on the page matched or created
\* for the unit and with the title "DocFX - <name> (<uid>)"; with units a and
\* b, a alone being listed, these are create b, update a, update b.
C6_CallsOfSuccessfulRun ==
    pc = "done" =>
      /\ \A n \in 1..Len(docfx_mappings) :
           LET unit    == docfx_mappings[n]
               creates == { i \in CallsOf("create_page") : calls[i].uid = unit.uid }
               updates == { i \in CallsOf("update_page") : calls[i].uid = unit.uid }
           IN  /\ Cardinality(creates) = IF unit.uid \in ListedUids THEN 0 ELSE 1
               /\ Cardinality(updates) = 1
               /\ \A i \in updates :
                    /\ calls[i].title = <<"DocFX - ", unit.name, " (", unit.uid, ")">>
                    /\ IF unit.uid \in ListedUids
                       THEN calls[i].page = UidTable(confluence_mappings)[unit.uid]
                       ELSE \E w \in 1..Len(wire) :
                               /\ wire[w].method = "POST_PAGE"
                               /\ wire[w].ok
                               /\ wire[w].uid = unit.uid
                               /\ wire[w].page = calls[i].page
      /\ \A i \in CallsOf("create_page") : \A j \in CallsOf("update_page") : i < j
      /\ Cardinality(CallsOf("update_page")) = Len(docfx_mappings)
      /\ ( /\ Len(docfx_mappings) = 2
           /\ docfx_mappings[1].uid = "a"
           /\ docfx_mappings[2].uid = "b"
           /\ ListedUids = {"a"} )
         => RemoteCallsFrom(calls) = << <<"create_page", "b">>,
                                        <<"update_page", "a">>,
                                        <<"update_page", "b">> >>

C6_Witness ==
    /\ pc = "done"
    /\ Len(docfx_mappings) = 2
    /\ docfx_mappings[1].uid = "a"
    /\ docfx_mappings[2].uid = "b"
    /\ ListedUids = {"a"}

\* C7 as stated: the update_page calls of a run are issued in the order of the
\* units in the xref map.
C7_UpdatesInInputOrder ==
    \A i, j \in CallsOf("update_page") :
        i < j => UnitIndex(calls[i].uid) < UnitIndex(calls[j].uid)

\* C7 amended: the update_page calls for the matched units come first, in the
\* order of the xref map, and those for the units created in this run follow,
\* in the order of the xref map.
C7_MatchedThenCreatedInOrder ==
    \A i, j \in CallsOf("update_page") :
        i < j =>
           /\ ~(CreatedNow(calls[i].uid) /\ ~CreatedNow(calls[j].uid))
           /\ (CreatedNow(calls[i].uid) <=> CreatedNow(calls[j].uid))
                 => UnitIndex(calls[i].uid) < UnitIndex(calls[j].uid)

C7_Witness ==
    /\ pc = "done"
    /\ \E i, j \in CallsOf("update_page") :
          /\ i < j
          /\ ~CreatedNow(calls[i].uid)
          /\ CreatedNow(calls[j].uid)
          /\ UnitIndex(calls[j].uid) < UnitIndex(calls[i].uid)

\* a request that update_page made: its GET, PUT and DELETE, and the POST of
\* the property that follows the DELETE
OfUpdatePage(i) ==
    \/ wire[i].method \in {"GET", "PUT", "DELETE"}
    \/ wire[i].method = "POST_PROPERTY" /\ i > 1 /\ wire[i - 1].method = "DELETE"

\* C8: when a request of update_page is answered with a failure payload, the
\* run is aborted, no further request is made and the unit is not reported as
\* updated.
C8_UpdateRaisesOnAnyFailure ==
    \A i \in 1..Len(wire) :
        (OfUpdatePage(i) /\ ~wire[i].ok) =>
            /\ pc = "aborted"
            /\ i = Len(wire)
            /\ \A n \in 1..Len(reported) : reported[n] # wire[i].uid

(***************************************************************************)
(* Properties of transform_links.                                          *)
(***************************************************************************)
\* the path that transform_links looks up for the anchor at position at
LookedUp(at) == base_dir \o <<"/">> \o LStrip(UrlPath(content[at].href[1]))

\* the positions of the cross-reference anchors with an href that the loop
\* has passed
Processed ==
    { Anchors(content)[k] : k \in 1..anchor_i } \cap
    { at \in 1..Len(content) : content[at].href # << >> }

\* C9: an anchor whose looked-up path is no key of the table keeps its href
\* and gets a warning; nothing is raised, and the loop goes on to the anchors
\* after it, rewriting those whose path is a key.
C9_MissingTargetLeftAlone ==
    /\ tl_pc \in {"loop", "returned"}
    /\ \A at \in Processed :
          IF LookedUp(at) \notin DOMAIN mappings
          THEN /\ content_html[at] = content[at]
               /\ \E w \in 1..Len(warnings) : warnings[w] = LookedUp(at)
          ELSE content_html[at].href[1] =
                  Replace(content[at].href[1], UrlPath(content[at].href[1]),
                          ViewerUrl(mappings[LookedUp(at)]))
    /\ tl_pc = "returned" => anchor_i = Len(Anchors(content))

C9_Witness ==
    /\ tl_pc = "returned"
    /\ \E i, j \in Processed :
          /\ i < j
          /\ LookedUp(i) \notin DOMAIN mappings
          /\ content_html[i] = content[i]
          /\ LookedUp(j) \in DOMAIN mappings
          /\ content_html[j] # content[j]

\* C10: for a page of the site root (base_dir ""), a link whose path, its
\* leading slashes stripped, is a key of the table is rewritten to the viewer
\* URL of the page id under that key; so "/c.html#frag" under {"c.html": 42}
\* gets the path /pages/viewpage.action?pageId=42.
C10_RootLinkResolves ==
    (tl_pc = "returned" /\ base_dir = << >>) =>
        \A at \in Processed :
            LET key == LStrip(UrlPath(content[at].href[1])) IN
            key \in DOMAIN mappings =>
                StartsWith(content_html[at].href[1], ViewerUrl(mappings[key]))

\* the parts of the original href at position at that are not its path: what
\* precedes the path (scheme and host) and what follows it (query, fragment)
BeforePath(at) == SubSeq(content[at].href[1], 1, UrlPathStart(content[at].href[1]))

AfterPath(at) ==
    SubSeq(content[at].href[1],
           UrlPathStart(content[at].href[1]) + Len(UrlPath(content[at].href[1])) + 1,
           Len(content[at].href[1]))

\* C11: when the looked-up path is a key of the table, the rewritten href is
\* the original one with its path replaced by the viewer URL of the page id:
\* scheme, host, query and fragment are what they were.
C11_OnlyPathReplaced ==
    \A at \in Processed :
        LookedUp(at) \in DOMAIN mappings =>
            content_html[at].href[1] =
                BeforePath(at) \o ViewerUrl(mappings[LookedUp(at)]) \o AfterPath(at)

\* C12: the markup returned holds the elements of the content in their order,
\* each unchanged but for the href of the cross-reference anchors that have
\* one; content without such an anchor is returned as it was.
C12_NothingElseChanges ==
    tl_pc = "returned" =>
      LET out == returned[1] IN
      /\ Len(out.elements) = Len(content)
      /\ \A at \in 1..Len(content) :
            /\ out.elements[at].tag = content[at].tag
            /\ out.elements[at].class = content[at].class
            /\ ~(IsXrefAnchor(content[at]) /\ content[at].href # << >>)
                  => out.elements[at] = content[at]
      /\ (\A at \in 1..Len(content) :
             ~(IsXrefAnchor(content[at]) /\ content[at].href # << >>))
            => out = [text |-> content_text, elements |-> content]

\* C13: every create_page call of a run names the space given with
\* --confluence-space.
C13_CreatedInConfiguredSpace ==
    \A i \in CallsOf("create_page") : calls[i].space_key = confluence_space

\* the second for loop of main() is about to start
PassTwoBegins == pc = "update_get" /\ updated = 0

\* The path by which a page in directory dir links to the site path target
\* (both without leading slashes): << >> when target is not under dir, else
\* <<the path>>.
LinkPathTo(dir, target) ==
    IF dir = << >> THEN <<target>>
    ELSE IF StartsWith(target, dir \o <<"/">>)
         THEN <<SubSeq(target, Len(dir) + 2, Len(target))>>
         ELSE << >>

\* C14: when pass 2 begins, for every unit and every page that can link to
\* it, the key that transform_links computes for such a link (the linking
\* page's directory, "/", the link path) is in the table by site path and
\* gives the id that the table by UID gives for the unit.
C14_PathTableComplete ==
    PassTwoBegins =>
        \A n, v \in 1..Len(docfx_mappings) :
            LET unit == docfx_mappings[n]
                dir  == Dirname(LStrip(docfx_mappings[v].href))
                link == LinkPathTo(dir, LStrip(unit.href))
            IN  link # << >> =>
                  /\ RelativePath(dir, link[1]) \in DOMAIN docfx_href_to_confluence_id
                  /\ docfx_href_to_confluence_id[RelativePath(dir, link[1])] =
                        docfx_uid_to_confluence_id[unit.uid]

\* C15: with other users editing, every PUT is the request that follows the
\* GET of the same page and carries the fetched version plus one; a PUT made
\* after an edit that followed the GET ends the run and leaves the page as the
\* edit left it; the version of a page never decreases.
C15_StaleUpdateRejected ==
    /\ [](\A i \in 1..Len(wire) :
            wire[i].method = "PUT" =>
               /\ i > 1
               /\ wire[i - 1].method = "GET"
               /\ wire[i - 1].page = wire[i].page
               /\ wire[i].number = wire[i - 1].number + 1)
    /\ [][ (pc = "update_put" /\ wire' # wire
               /\ store[page_id].version # page_version)
              => (pc' = "aborted" /\ store' = store) ]_vars
    /\ [][ /\ Len(store') >= Len(store)
           /\ \A p \in DOMAIN store : store'[p].version >= store[p].version ]_vars

C15_Witness ==
    /\ pc = "aborted"
    /\ wire # << >>
    /\ wire[Len(wire)].method = "PUT"
    /\ ~wire[Len(wire)].ok
    /\ store[page_id].version = page_version + 1

\* C16: when the POST that creates a page fails, the run ends at once: the
\* failed request is the last one sent, the unit is not in the UID table, its
\* path is in the path table only if a listed page carries it, no property
\* was posted for it and no page was updated.
C16_FailedCreateAborts ==
    \A i \in 1..Len(wire) :
        (wire[i].method = "POST_PAGE" /\ ~wire[i].ok) =>
            /\ i = Len(wire)
            /\ pc = "aborted"
            /\ wire[i].uid \notin DOMAIN docfx_uid_to_confluence_id
            /\ \A u \in 1..Len(docfx_mappings) :
                 (/\ docfx_mappings[u].uid = wire[i].uid
                  /\ docfx_mappings[u].href \in DOMAIN docfx_href_to_confluence_id)
                 => \E k \in 1..Len(confluence_mappings) :
                      /\ LStrip(confluence_mappings[k].docfx_href) = docfx_mappings[u].href
                      /\ confluence_mappings[k].confluence_id =
                            docfx_href_to_confluence_id[docfx_mappings[u].href]
            /\ \A c \in 1..Len(calls) : calls[c].op # "update_page"

C16_Witness ==
    /\ wire # << >>
    /\ wire[Len(wire)].method = "POST_PAGE"
    /\ ~wire[Len(wire)].ok
    /\ created >= 1
    /\ pc = "aborted"

\* C17: on an unchanging server the listing asks for the offsets 0, 50, 100,
\* ... in turn, every answer but the last has pages, the loop ends at the
\* first empty answer, and the result is the pages that carry the docfx
\* property, each once, in the order of the listing, with their own values.
Carriers == { i \in 1..Len(store) : store[i].docfx # << >> }

C17_ListingSafe ==
    /\ \A i \in 1..Len(wire) :
         /\ wire[i].method = "LIST"
         /\ wire[i].number = (i - 1) * step
         /\ i < Len(wire) => wire[i].ok /\ wire[i].number < Len(store)
    /\ pc = "list" /\ wire # << >> => wire[Len(wire)].number < Len(store)
    /\ pc = "index" =>
         /\ wire[Len(wire)].number >= Len(store)
         /\ Len(confluence_mappings) = Cardinality(Carriers)
         /\ \A k \in 1..Len(confluence_mappings) :
              LET entry == confluence_mappings[k] IN
              /\ entry.confluence_id \in Carriers
              /\ entry.docfx_uid = store[entry.confluence_id].docfx[1].docfx_uid
              /\ entry.docfx_href = store[entry.confluence_id].docfx[1].docfx_href
              /\ k > 1 => confluence_mappings[k - 1].confluence_id < entry.confluence_id

C17_ListingComplete ==
    /\ []C17_ListingSafe
    /\ <>(pc \in {"index", "aborted"})

C17_Witness ==
    /\ pc = "index"
    /\ Len(wire) >= 3
    /\ Len(confluence_mappings) > 0
    /\ Len(confluence_mappings) < Len(store)
    /\ Len(store) % step # 0

\* C18: when several listed pages carry the same identifier or the same site
\* path, both tables map the key to the id of the last of them in the order
\* of the listing; a unit with that identifier is matched, no page is created
\* for it, and the requests that update it go to that last page only.
LastWithUid(uid) ==
    CHOOSE k \in 1..Len(confluence_mappings) :
        /\ confluence_mappings[k].docfx_uid = uid
        /\ \A j \in (k + 1)..Len(confluence_mappings) :
             confluence_mappings[j].docfx_uid # uid

LastWithPath(path) ==
    CHOOSE k \in 1..Len(confluence_mappings) :
        /\ LStrip(confluence_mappings[k].docfx_href) = path
        /\ \A j \in (k + 1)..Len(confluence_mappings) :
             LStrip(confluence_mappings[j].docfx_href) # path

\* the tables were built from a listing that is not empty (the run may have
\* been stopped before)
TablesBuilt ==
    /\ pc \notin {"list", "index"}
    /\ docfx_uid_to_confluence_id # EmptyDict

C18_LastListedPageWins ==
    TablesBuilt =>
        \A k \in 1..Len(confluence_mappings) :
            LET uid  == confluence_mappings[k].docfx_uid
                path == LStrip(confluence_mappings[k].docfx_href)
                last == confluence_mappings[LastWithUid(uid)].confluence_id
            IN  /\ docfx_uid_to_confluence_id[uid] = last
                \* as built: pass 1 adds the paths of the pages it creates
                /\ CallsOf("create_page") = {} =>
                      docfx_href_to_confluence_id[path] =
                         confluence_mappings[LastWithPath(path)].confluence_id
                /\ \A n \in 1..Len(docfx_mappings) :
                     docfx_mappings[n].uid = uid =>
                        /\ \E e \in 1..Len(existing_mappings) :
                              /\ existing_mappings[e].uid = uid
                              /\ existing_mappings[e].confluence_id = last
                        /\ \A e \in 1..Len(new_mappings) : new_mappings[e].uid # uid
                /\ \A c \in 1..Len(calls) :
                     calls[c].uid = uid =>
                        /\ calls[c].op # "create_page"
                        /\ calls[c].op = "update_page" => calls[c].page = last
                /\ \A w \in 1..Len(wire) :
                     (wire[w].uid = uid /\ wire[w].method # "LIST") =>
                        /\ wire[w].method # "POST_PAGE"
                        /\ wire[w].page = last

C18_Witness ==
    /\ pc = "done"
    /\ \E i, j \in 1..Len(confluence_mappings) :
         /\ i < j
         /\ confluence_mappings[i].docfx_uid = confluence_mappings[j].docfx_uid
         /\ \E c \in 1..Len(calls) :
              /\ calls[c].uid = confluence_mappings[j].docfx_uid
              /\ calls[c].page = confluence_mappings[j].confluence_id
    /\ \E i, j \in 1..Len(confluence_mappings) :
         /\ i < j
         /\ LStrip(confluence_mappings[i].docfx_href) =
               LStrip(confluence_mappings[j].docfx_href)

\* C19: a run that follows a completed run in which every unit of the xref
\* map was created, and that finds all of them in the listing, uploads for
\* every unit the content that the creating run uploaded for it.
C19_SameUploadsAfterCreation ==
    ( /\ run = "second"
      /\ firstOutcome = "done"
      /\ createdEarlier = { docfx_mappings[n].uid : n \in 1..Len(docfx_mappings) }
      /\ TablesBuilt
      /\ new_mappings = << >> )
    => \A c \in CallsOf("update_page") :
           <<calls[c].uid, calls[c].content>> \in firstUploads

====
